---- MODULE Spec2Model ----
(***************************************************************************)
(* Model of the pseudo-Japanese language generator                          *)
(* (112450039_林念慈_JP_Generate.py): PhonologySystem, MorphologySystem,     *)
(* SyntaxSystem and the button handlers of JapaneseLanguageCreatorUI that   *)
(* read and write the vocabulary store.                                     *)
(*                                                                         *)
(* Python strings are sequences of one-character strings, so that           *)
(* concatenation, "ends with" and splitting on spaces are computed.         *)
(*                                                                         *)
(* The random module is modelled by a tape: a sequence of raw draws that a  *)
(* call consumes from left to right.  random.choice(xs) with raw draw r is  *)
(* xs[r mod len(xs)], random.randint(2,3) is 2 + r mod 2, and               *)
(* random.random() < 0.3 is r mod 10 < 3.  Every operator that draws takes  *)
(* the tape t and the number k of draws consumed so far and returns the     *)
(* new k with its result.                                                  *)
(***************************************************************************)
EXTENDS Integers, Sequences, FiniteSets, TLC

VARIABLES
    vocabulary,  \* self.vocabulary: defaultdict(list), word class -> words
    call,        \* the handler that ran last, with the store it started from
    sentences,   \* the sentences the last handler appended to the output
    morph,       \* the before/after pairs show_morphology appended
    raised,      \* TRUE iff the last handler ended in IndexError
    rules,       \* MorphologySystem.rules
    ui,          \* TRUE once init_default_rules has run
    mcall,       \* the last apply_morphology call and its result
    scall,       \* the last generate_sentence call and its result
    wcall        \* the last generate_word call and its result

vars == <<vocabulary, call, sentences, morph, raised, rules, ui, mcall, scall, wcall>>

(***************************************************************************)
(* Bounds                                                                  *)
(***************************************************************************)
MaxSeed == 4        \* tapes 0..MaxSeed are explored per handler call
TapeLen == 140      \* raw draws on a tape (no handler consumes more)
MaxNouns == 6       \* generate_vocabulary is not called beyond this many nouns
MaxSyllables == 5   \* largest syllable_count passed to generate_word
MaxAdded == 2       \* add_rule calls explored (besides init_default_rules)
MaxWordLen == 2     \* longest argument string passed to generate_sentence

(***************************************************************************)
(* random                                                                  *)
(***************************************************************************)
Tape(seed) ==
    [k \in 1..TapeLen |-> (seed * 7 + k * k * 11 + seed * k * 13 + k * 3) % 90]

Tapes == {Tape(seed) : seed \in 0..MaxSeed}

Raw(t, k) == t[k + 1]

\* random.choice(xs) for a non-empty xs
Choice(xs, r) == xs[(r % Len(xs)) + 1]

\* random.randint(lo, hi)
RandInt(lo, hi, r) == lo + (r % (hi - lo + 1))

\* random.random() < 0.3
Below30(r) == (r % 10) < 3

(***************************************************************************)
(* PhonologySystem                                                         *)
(***************************************************************************)
consonants == <<"k", "s", "t", "n", "h", "m", "y", "r", "w">>
vowels == <<"a", "i", "u", "e", "o">>
n_end == << <<"n">>, <<>> >>
verb_suffixes == << <<"r","u">>, <<"m","u">>, <<"s","u">>, <<"k","u">>, <<"t","a">> >>
noun_suffixes == << <<"k","o">>, <<"m","i">>, <<"r","a">>, <<"t","o">>, <<"n","a">> >>

\* syllable_count: None, or an int n written <<n>>
None == <<>>

generate_syllable(t, k) ==
    LET syllable == <<Choice(consonants, Raw(t, k)), Choice(vowels, Raw(t, k + 1))>>
    IN  IF Below30(Raw(t, k + 2))
        THEN [s |-> syllable \o Choice(n_end, Raw(t, k + 3)), k |-> k + 4]
        ELSE [s |-> syllable, k |-> k + 3]

\* for _ in range(n): word += self.generate_syllable()
RECURSIVE Syllables(_, _, _, _)
Syllables(t, k, word, n) ==
    IF n <= 0
    THEN [s |-> word, k |-> k]
    ELSE LET g == generate_syllable(t, k)
         IN  Syllables(t, g.k, word \o g.s, n - 1)

\* mutant: the loop runs range(syllable_count - 1)
MutWord_generate_word(t, k, syllable_count, word_type) ==
    LET n  == IF syllable_count = None THEN RandInt(2, 3, Raw(t, k)) ELSE syllable_count[1]
        k1 == IF syllable_count = None THEN k + 1 ELSE k
        w  == Syllables(t, k1, <<>>, n - 1)
    IN  IF word_type = "verb"
        THEN [s |-> w.s \o Choice(verb_suffixes, Raw(t, w.k)), k |-> w.k + 1]
        ELSE IF word_type = "noun"
        THEN [s |-> w.s \o Choice(noun_suffixes, Raw(t, w.k)), k |-> w.k + 1]
        ELSE w

generate_word(t, k, syllable_count, word_type) ==
    LET n  == IF syllable_count = None THEN RandInt(2, 3, Raw(t, k)) ELSE syllable_count[1]
        k1 == IF syllable_count = None THEN k + 1 ELSE k
        w  == Syllables(t, k1, <<>>, n)
    IN  IF word_type = "verb"
        THEN [s |-> w.s \o Choice(verb_suffixes, Raw(t, w.k)), k |-> w.k + 1]
        ELSE IF word_type = "noun"
        THEN [s |-> w.s \o Choice(noun_suffixes, Raw(t, w.k)), k |-> w.k + 1]
        ELSE w

(***************************************************************************)
(* MorphologySystem                                                        *)
(***************************************************************************)
MorphologyRule(name, rule_type, marker, meaning) ==
    [name |-> name, rule_type |-> rule_type, marker |-> marker, meaning |-> meaning]

add_rule(rs, name, rule_type, marker, meaning) ==
    Append(rs, MorphologyRule(name, rule_type, marker, meaning))

\* for rule in self.rules[i..]: a rule whose name matches but whose rule_type is
\* neither 'prefix' nor 'suffix' returns nothing and the scan goes on
RECURSIVE ScanRules(_, _, _, _)
ScanRules(rs, i, base_word, rule_name) ==
    IF i > Len(rs)
    THEN base_word
    ELSE IF rs[i].name = rule_name /\ rs[i].rule_type = "prefix"
    THEN rs[i].marker \o base_word
    ELSE IF rs[i].name = rule_name /\ rs[i].rule_type = "suffix"
    THEN base_word \o rs[i].marker
    ELSE ScanRules(rs, i + 1, base_word, rule_name)

\* mutant: the scan runs from the last rule to the first (last match wins)
RECURSIVE ScanRulesBack(_, _, _, _)
ScanRulesBack(rs, i, base_word, rule_name) ==
    IF i < 1
    THEN base_word
    ELSE IF rs[i].name = rule_name /\ rs[i].rule_type = "prefix"
    THEN rs[i].marker \o base_word
    ELSE IF rs[i].name = rule_name /\ rs[i].rule_type = "suffix"
    THEN base_word \o rs[i].marker
    ELSE ScanRulesBack(rs, i - 1, base_word, rule_name)

MutLast_apply_morphology(rs, base_word, rule_name) ==
    ScanRulesBack(rs, Len(rs), base_word, rule_name)

\* mutant: with no match the last rule of the list is applied as a suffix
MutDefault_apply_morphology(rs, base_word, rule_name) ==
    IF \E i \in 1..Len(rs) : rs[i].name = rule_name
    THEN ScanRules(rs, 1, base_word, rule_name)
    ELSE IF rs = <<>> THEN base_word ELSE base_word \o rs[Len(rs)].marker

apply_morphology(rs, base_word, rule_name) ==
    ScanRules(rs, 1, base_word, rule_name)

\* mutant: the negation rule is registered as a suffix
MutSuffix_init_default_rules(rs) ==
    add_rule(add_rule(add_rule(rs,
        "plural", "suffix", <<"t","a","c","h","i">>, "plural"),
        "past", "suffix", <<"t","a">>, "past"),
        "negative", "suffix", <<"f","u">>, "negation")

\* JapaneseLanguageCreatorUI.init_default_rules
init_default_rules(rs) ==
    add_rule(add_rule(add_rule(rs,
        "plural", "suffix", <<"t","a","c","h","i">>, "plural"),
        "past", "suffix", <<"t","a">>, "past"),
        "negative", "prefix", <<"f","u">>, "negation")

(***************************************************************************)
(* SyntaxSystem                                                            *)
(***************************************************************************)
particles ==
    [subject   |-> << <<"w","a">>, <<"g","a">> >>,
     object    |-> << <<"w","o">> >>,
     direction |-> << <<"e">>, <<"o">> >>]

\* ' '.join(parts)
RECURSIVE Join(_)
Join(parts) ==
    IF parts = <<>> THEN <<>>
    ELSE IF Len(parts) = 1 THEN parts[1]
    ELSE parts[1] \o <<" ">> \o Join(Tail(parts))

\* mutant: the verb is appended before the adverb phrase
MutOrder_generate_sentence(t, k, subject, verb, obj, add_adverb, adverb) ==
    LET p1 == <<subject \o Choice(particles.subject, Raw(t, k))>>
        hasObj == obj # <<>>
        k1 == k + 1
        p2 == IF hasObj THEN <<obj \o Choice(particles.object, Raw(t, k1))>> ELSE <<>>
        k2 == IF hasObj THEN k1 + 1 ELSE k1
        hasAdv == add_adverb /\ adverb # <<>>
        p3 == IF hasAdv THEN <<adverb \o Choice(particles.direction, Raw(t, k2))>> ELSE <<>>
        k3 == IF hasAdv THEN k2 + 1 ELSE k2
        parts == p1 \o p2 \o <<verb>> \o p3
    IN  [s |-> Join(parts) \o <<".">>, parts |-> parts, k |-> k3]

\* mutant: the adverb phrase is appended whenever add_adverb is set
MutAdv_generate_sentence(t, k, subject, verb, obj, add_adverb, adverb) ==
    LET p1 == <<subject \o Choice(particles.subject, Raw(t, k))>>
        hasObj == obj # <<>>
        k1 == k + 1
        p2 == IF hasObj THEN <<obj \o Choice(particles.object, Raw(t, k1))>> ELSE <<>>
        k2 == IF hasObj THEN k1 + 1 ELSE k1
        hasAdv == add_adverb
        p3 == IF hasAdv THEN <<adverb \o Choice(particles.direction, Raw(t, k2))>> ELSE <<>>
        k3 == IF hasAdv THEN k2 + 1 ELSE k2
        parts == p1 \o p2 \o p3 \o <<verb>>
    IN  [s |-> Join(parts) \o <<".">>, parts |-> parts, k |-> k3]

generate_sentence(t, k, subject, verb, obj, add_adverb, adverb) ==
    LET p1 == <<subject \o Choice(particles.subject, Raw(t, k))>>
        hasObj == obj # <<>>
        k1 == k + 1
        p2 == IF hasObj THEN <<obj \o Choice(particles.object, Raw(t, k1))>> ELSE <<>>
        k2 == IF hasObj THEN k1 + 1 ELSE k1
        hasAdv == add_adverb /\ adverb # <<>>
        p3 == IF hasAdv THEN <<adverb \o Choice(particles.direction, Raw(t, k2))>> ELSE <<>>
        k3 == IF hasAdv THEN k2 + 1 ELSE k2
        parts == p1 \o p2 \o p3 \o <<verb>>
    IN  [s |-> Join(parts) \o <<".">>, parts |-> parts, k |-> k3]

(***************************************************************************)
(* The vocabulary store: self.vocabulary = defaultdict(list)               *)
(***************************************************************************)
Range(f) == {f[i] : i \in DOMAIN f}

\* the words of a class, without creating its key (.get, or a read of the items)
Get(voc, c) == IF c \in DOMAIN voc THEN voc[c] ELSE <<>>

\* self.vocabulary[c]: defaultdict creates the key with an empty list
Touch(voc, c) ==
    [x \in DOMAIN voc \cup {c} |-> IF x \in DOMAIN voc THEN voc[x] ELSE <<>>]

\* mutant: self.vocabulary[c].insert(0, word)
MutPrepend_VocabAppend(voc, c, word) ==
    [x \in DOMAIN voc \cup {c} |-> IF x = c THEN <<word>> \o Get(voc, c) ELSE voc[x]]

\* self.vocabulary[c].append(word)
VocabAppend(voc, c, word) ==
    [x \in DOMAIN voc \cup {c} |-> IF x = c THEN Append(Get(voc, c), word) ELSE voc[x]]

(***************************************************************************)
(* JapaneseLanguageCreatorUI.generate_vocabulary                           *)
(***************************************************************************)
word_types == <<"noun", "verb", "noun", "adjective", "noun">>

\* for i, (word_type, chinese) in enumerate(word_types, 1): generate and record
RECURSIVE VocabularyLoop(_, _, _, _)
VocabularyLoop(voc, t, k, i) ==
    IF i > Len(word_types)
    THEN voc
    ELSE LET n == RandInt(2, 3, Raw(t, k))
             g == generate_word(t, k + 1, <<n>>, word_types[i])
         IN  VocabularyLoop(VocabAppend(voc, word_types[i], g.s), t, g.k, i + 1)

(***************************************************************************)
(* JapaneseLanguageCreatorUI.show_morphology                               *)
(***************************************************************************)
show_morphology(voc, rs, t, k) ==
    LET v1   == Touch(voc, "noun")
        hasN == v1["noun"] # <<>>
        noun == Choice(v1["noun"], Raw(t, k))
        o1   == IF hasN THEN << <<noun, apply_morphology(rs, noun, "plural")>> >> ELSE <<>>
        k1   == IF hasN THEN k + 1 ELSE k
        v2   == Touch(v1, "verb")
        hasV == v2["verb"] # <<>>
        verb == Choice(v2["verb"], Raw(t, k1))
        o2   == IF hasV THEN << <<verb, apply_morphology(rs, verb, "past")>> >> ELSE <<>>
        k2   == IF hasV THEN k1 + 1 ELSE k1
        hasA == Get(v2, "adjective") # <<>>
        adj  == Choice(v2["adjective"], Raw(t, k2))
        o3   == IF hasA THEN << <<adj, apply_morphology(rs, adj, "negative")>> >> ELSE <<>>
    IN  [voc |-> v2, out |-> o1 \o o2 \o o3, raised |-> FALSE]

(***************************************************************************)
(* JapaneseLanguageCreatorUI.generate_sentences                            *)
(***************************************************************************)
\* for _ in range(n): self.vocabulary[c].append(generate_word(2, c))
RECURSIVE Fill(_, _, _, _, _)
Fill(voc, t, k, c, n) ==
    IF n <= 0
    THEN [voc |-> voc, k |-> k]
    ELSE LET g == generate_word(t, k, <<2>>, c)
         IN  Fill(VocabAppend(voc, c, g.s), t, g.k, c, n - 1)

\* mutant: the fallback words are generated only when the noun class is empty
MutNounOnly_EnsureVocabulary(voc, t, k) ==
    LET v1 == Touch(voc, "noun")
        f1 == IF v1["noun"] = <<>> THEN Fill(v1, t, k, "noun", 3) ELSE [voc |-> v1, k |-> k]
    IN  [voc |-> Touch(f1.voc, "verb"), k |-> f1.k]

\* mutant: two fallback nouns
MutTwo_EnsureVocabulary(voc, t, k) ==
    LET v1 == Touch(voc, "noun")
        f1 == IF v1["noun"] = <<>> THEN Fill(v1, t, k, "noun", 2) ELSE [voc |-> v1, k |-> k]
        v2 == Touch(f1.voc, "verb")
    IN  IF v2["verb"] = <<>> THEN Fill(v2, t, f1.k, "verb", 2) ELSE [voc |-> v2, k |-> f1.k]

\* "make sure there is enough vocabulary"
EnsureVocabulary(voc, t, k) ==
    LET v1 == Touch(voc, "noun")
        f1 == IF v1["noun"] = <<>> THEN Fill(v1, t, k, "noun", 3) ELSE [voc |-> v1, k |-> k]
        v2 == Touch(f1.voc, "verb")
    IN  IF v2["verb"] = <<>> THEN Fill(v2, t, f1.k, "verb", 2) ELSE [voc |-> v2, k |-> f1.k]

patterns == << <<"S", "O", "V">>, <<"S", "V">>, <<"S", "O", "V", "Adv">> >>

\* for i in range(count): one sentence; random.choice of an empty list raises
\* IndexError, which ends the handler
RECURSIVE SentenceLoop(_, _, _, _, _, _)
SentenceLoop(voc, t, k, i, count, out) ==
    IF i >= count
    THEN [voc |-> voc, out |-> out, raised |-> FALSE]
    ELSE LET pattern == Choice(patterns, Raw(t, k))
             v1      == Touch(voc, "noun")
             v2      == Touch(v1, "verb")
         IN  IF v1["noun"] = <<>>
             THEN [voc |-> v1, out |-> out, raised |-> TRUE]
             ELSE IF v2["verb"] = <<>>
             THEN [voc |-> v2, out |-> out, raised |-> TRUE]
             ELSE LET subject    == Choice(v2["noun"], Raw(t, k + 1))
                      verb       == Choice(v2["verb"], Raw(t, k + 2))
                      hasO       == "O" \in Range(pattern)
                      obj        == IF hasO THEN Choice(v2["noun"], Raw(t, k + 3)) ELSE <<>>
                      k3         == IF hasO THEN k + 4 ELSE k + 3
                      add_adverb == "Adv" \in Range(pattern)
                      g          == generate_word(t, k3, <<2>>, "noun")
                      adverb     == IF add_adverb THEN g.s ELSE <<>>
                      k4         == IF add_adverb THEN g.k ELSE k3
                      s          == generate_sentence(t, k4, subject, verb, obj,
                                                      add_adverb, adverb)
                  IN  SentenceLoop(v2, t, s.k, i + 1, count,
                          Append(out, [pattern |-> pattern, adverb |-> adverb,
                                       sentence |-> s.s]))

\* mutant: the generated adverbs are recorded in the store
RECURSIVE RecordAdverbs(_, _)
RecordAdverbs(voc, out) ==
    IF out = <<>>
    THEN voc
    ELSE RecordAdverbs(IF out[1].adverb # <<>>
                       THEN VocabAppend(voc, "adverb", out[1].adverb) ELSE voc,
                       Tail(out))

MutRecord_generate_sentences(voc, t, k, count) ==
    LET e == EnsureVocabulary(voc, t, k)
        r == SentenceLoop(e.voc, t, e.k, 0, count, <<>>)
    IN  [r EXCEPT !.voc = RecordAdverbs(r.voc, r.out)]

generate_sentences(voc, t, k, count) ==
    LET e == EnsureVocabulary(voc, t, k)
    IN  SentenceLoop(e.voc, t, e.k, 0, count, <<>>)

\* JapaneseLanguageCreatorUI.final_showcase: the dumps read the systems and the
\* items of the store; the sample sentences come from generate_sentences(3)
final_showcase(voc, t, k) == generate_sentences(voc, t, k, 3)

(***************************************************************************)
(* Values of the variables a specification does not use                    *)
(***************************************************************************)
EmptyStore == [c \in {} |-> <<>>]
NoCall == [op |-> "init", count |-> 0, pre |-> EmptyStore]
NoMCall == [done |-> FALSE, base_word |-> <<>>, rule_name |-> "", result |-> <<>>]
NoSCall ==
    [done |-> FALSE, subject |-> <<>>, verb |-> <<>>, obj |-> <<>>,
     add_adverb |-> FALSE, adverb |-> <<>>, parts |-> <<>>, sentence |-> <<>>]
NoWCall == [done |-> FALSE, syllable_count |-> None, word_type |-> "", word |-> <<>>]

(***************************************************************************)
(* Spec: the application after __init__, driven by its buttons             *)
(***************************************************************************)
Init ==
    /\ vocabulary = EmptyStore
    /\ call = NoCall
    /\ sentences = <<>>
    /\ morph = <<>>
    /\ raised = FALSE
    /\ rules = init_default_rules(<<>>)
    /\ ui = TRUE
    /\ mcall = NoMCall
    /\ scall = NoSCall
    /\ wcall = NoWCall

\* command=self.generate_vocabulary
btn_gen_words ==
    /\ Len(Get(vocabulary, "noun")) + 3 <= MaxNouns
    /\ \E t \in Tapes :
        /\ vocabulary' = VocabularyLoop(vocabulary, t, 0, 1)
        /\ call' = [op |-> "generate_vocabulary", count |-> 0, pre |-> vocabulary]
        /\ sentences' = <<>>
        /\ morph' = <<>>
        /\ raised' = FALSE
    /\ UNCHANGED <<rules, ui, mcall, scall, wcall>>

\* command=self.show_morphology
btn_show_morphology ==
    /\ \E t \in Tapes :
        LET r == show_morphology(vocabulary, rules, t, 0)
        IN  /\ vocabulary' = r.voc
            /\ call' = [op |-> "show_morphology", count |-> 0, pre |-> vocabulary]
            /\ sentences' = <<>>
            /\ morph' = r.out
            /\ raised' = r.raised
    /\ UNCHANGED <<rules, ui, mcall, scall, wcall>>

SentencesClick(count) ==
    /\ \E t \in Tapes :
        LET r == generate_sentences(vocabulary, t, 0, count)
        IN  /\ vocabulary' = r.voc
            /\ call' = [op |-> "generate_sentences", count |-> count, pre |-> vocabulary]
            /\ sentences' = r.out
            /\ morph' = <<>>
            /\ raised' = r.raised
    /\ UNCHANGED <<rules, ui, mcall, scall, wcall>>

\* command=lambda: self.generate_sentences(1)
btn_gen_1 == SentencesClick(1)

\* command=lambda: self.generate_sentences(5)
btn_gen_5 == SentencesClick(5)

\* command=self.clear_output
btn_clear ==
    /\ call' = [op |-> "clear_output", count |-> 0, pre |-> vocabulary]
    /\ sentences' = <<>>
    /\ morph' = <<>>
    /\ raised' = FALSE
    /\ UNCHANGED <<vocabulary, rules, ui, mcall, scall, wcall>>

\* command=self.final_showcase
btn_showcase ==
    /\ \E t \in Tapes :
        LET r == final_showcase(vocabulary, t, 0)
        IN  /\ vocabulary' = r.voc
            /\ call' = [op |-> "final_showcase", count |-> 3, pre |-> vocabulary]
            /\ sentences' = r.out
            /\ morph' = <<>>
            /\ raised' = r.raised
    /\ UNCHANGED <<rules, ui, mcall, scall, wcall>>

Next ==
    \/ btn_gen_words
    \/ btn_show_morphology
    \/ btn_gen_1
    \/ btn_gen_5
    \/ btn_clear
    \/ btn_showcase

Spec == Init /\ [][Next]_vars

(***************************************************************************)
(* MorphSpec: a MorphologySystem, its rule list built by add_rule          *)
(***************************************************************************)
RuleNames == {"plural", "past", "negative", "unknown_rule"}
RuleTypes == {"prefix", "suffix", "infix"}
Markers == {<<"a">>, <<"b">>}
BaseWords == {<<>>, <<"n","e","k","o">>}

MorphInit ==
    /\ vocabulary = EmptyStore
    /\ call = NoCall
    /\ sentences = <<>>
    /\ morph = <<>>
    /\ raised = FALSE
    /\ rules = <<>>
    /\ ui = FALSE
    /\ mcall = NoMCall
    /\ scall = NoSCall
    /\ wcall = NoWCall

\* JapaneseLanguageCreatorUI.__init__ calls it on the fresh MorphologySystem
InitDefaultRules ==
    /\ ~ui
    /\ rules = <<>>
    /\ rules' = init_default_rules(rules)
    /\ ui' = TRUE
    /\ mcall' = NoMCall
    /\ UNCHANGED <<vocabulary, call, sentences, morph, raised, scall, wcall>>

AddRule ==
    /\ Len(rules) < MaxAdded + (IF ui THEN 3 ELSE 0)
    /\ \E name \in RuleNames, rule_type \in RuleTypes, marker \in Markers :
        rules' = add_rule(rules, name, rule_type, marker, "meaning")
    /\ mcall' = NoMCall
    /\ UNCHANGED <<vocabulary, call, sentences, morph, raised, ui, scall, wcall>>

ApplyMorphology ==
    /\ ~mcall.done
    /\ \E base_word \in BaseWords, rule_name \in RuleNames :
        mcall' = [done |-> TRUE, base_word |-> base_word, rule_name |-> rule_name,
                  result |-> apply_morphology(rules, base_word, rule_name)]
    /\ UNCHANGED <<vocabulary, call, sentences, morph, raised, rules, ui, scall, wcall>>

MorphNext == InitDefaultRules \/ AddRule \/ ApplyMorphology

MorphSpec == MorphInit /\ [][MorphNext]_vars

(***************************************************************************)
(* SyntaxSpec: one call of SyntaxSystem.generate_sentence                  *)
(***************************************************************************)
ArgAlphabet == {"a", " "}
ArgStrings == UNION {[1..n -> ArgAlphabet] : n \in 0..MaxWordLen}
\* every outcome of the three random.choice calls over the particle lists
SyntaxTapes == [1..3 -> {0, 1}]

SyntaxInit ==
    /\ vocabulary = EmptyStore
    /\ call = NoCall
    /\ sentences = <<>>
    /\ morph = <<>>
    /\ raised = FALSE
    /\ rules = <<>>
    /\ ui = FALSE
    /\ mcall = NoMCall
    /\ \E subject \in ArgStrings, verb \in ArgStrings, obj \in ArgStrings,
          add_adverb \in BOOLEAN, adverb \in ArgStrings :
        scall = [done |-> FALSE, subject |-> subject, verb |-> verb, obj |-> obj,
                 add_adverb |-> add_adverb, adverb |-> adverb,
                 parts |-> <<>>, sentence |-> <<>>]
    /\ wcall = NoWCall

GenerateSentence ==
    /\ ~scall.done
    /\ \E t \in SyntaxTapes :
        LET r == generate_sentence(t, 0, scall.subject, scall.verb, scall.obj,
                                   scall.add_adverb, scall.adverb)
        IN  scall' = [scall EXCEPT !.done = TRUE, !.parts = r.parts, !.sentence = r.s]
    /\ UNCHANGED <<vocabulary, call, sentences, morph, raised, rules, ui, mcall, wcall>>

SyntaxNext == GenerateSentence

SyntaxSpec == SyntaxInit /\ [][SyntaxNext]_vars

(***************************************************************************)
(* PhonSpec: one call of PhonologySystem.generate_word                     *)
(***************************************************************************)
SyllableCounts == {None} \cup {<<n>> : n \in -1..MaxSyllables}
WordTypes == {"noun", "verb", "adjective"}

PhonInit ==
    /\ vocabulary = EmptyStore
    /\ call = NoCall
    /\ sentences = <<>>
    /\ morph = <<>>
    /\ raised = FALSE
    /\ rules = <<>>
    /\ ui = FALSE
    /\ mcall = NoMCall
    /\ scall = NoSCall
    /\ \E syllable_count \in SyllableCounts, word_type \in WordTypes :
        wcall = [done |-> FALSE, syllable_count |-> syllable_count,
                 word_type |-> word_type, word |-> <<>>]

GenerateWord ==
    /\ ~wcall.done
    /\ \E t \in Tapes :
        wcall' = [wcall EXCEPT !.done = TRUE,
                  !.word = generate_word(t, 0, wcall.syllable_count, wcall.word_type).s]
    /\ UNCHANGED <<vocabulary, call, sentences, morph, raised, rules, ui, mcall, scall>>

PhonNext == GenerateWord

PhonSpec == PhonInit /\ [][PhonNext]_vars

(***************************************************************************)
(* Helpers of the properties                                               *)
(***************************************************************************)
IsPrefix(a, b) == Len(a) <= Len(b) /\ SubSeq(b, 1, Len(a)) = a

EndsWith(s, e) == Len(e) <= Len(s) /\ SubSeq(s, Len(s) - Len(e) + 1, Len(s)) = e

\* the last element of s.split(' '): what follows the last space of s
RECURSIVE LastToken(_)
LastToken(s) ==
    IF s = <<>> THEN <<>>
    ELSE IF s[Len(s)] = " " THEN <<>>
    ELSE Append(LastToken(SubSeq(s, 1, Len(s) - 1)), s[Len(s)])

StoreEmpty(voc) == \A c \in DOMAIN voc : voc[c] = <<>>

SameWords(v, w) == \A c \in DOMAIN v \cup DOMAIN w : Get(v, c) = Get(w, c)

SentenceOps == {"generate_sentences", "final_showcase"}

\* the rules of rs that apply_morphology can apply for rule_name
Named(rs, rule_name) == {i \in 1..Len(rs) : rs[i].name = rule_name}
Effective(rs, rule_name) ==
    {i \in Named(rs, rule_name) : rs[i].rule_type \in {"prefix", "suffix"}}
Min(S) == CHOOSE i \in S : \A j \in S : i <= j
Affixed(rule, base_word) ==
    IF rule.rule_type = "prefix" THEN rule.marker \o base_word
    ELSE IF rule.rule_type = "suffix" THEN base_word \o rule.marker
    ELSE base_word

(***************************************************************************)
(* C1: starting from an empty store, generate_sentences (the buttons, and   *)
(* final_showcase through generate_sentences(3)) never raises: it ends with *)
(* exactly 3 fallback nouns and 2 fallback verbs in the store and with      *)
(* `count` sentences produced.                                             *)
(***************************************************************************)
C1_FallbackBeforeSampling ==
    (call.op \in SentenceOps /\ StoreEmpty(call.pre)) =>
        /\ ~raised
        /\ Len(Get(vocabulary, "noun")) = 3
        /\ Len(Get(vocabulary, "verb")) = 2
        /\ Get(vocabulary, "adjective") = <<>>
        /\ Len(sentences) = call.count

C1_Witness ==
    /\ call.op = "generate_sentences"
    /\ call.count = 1
    /\ StoreEmpty(call.pre)
    /\ Len(sentences) = 1
    /\ Len(vocabulary["noun"]) = 3

(***************************************************************************)
(* C2 as claimed: for all arguments the sentence ends with the verb         *)
(* followed by a period, and the verb (with the period) is the last         *)
(* space-separated phrase of the sentence.                                  *)
(***************************************************************************)
C2_Original ==
    scall.done =>
        /\ EndsWith(scall.sentence, scall.verb \o <<".">>)
        /\ LastToken(scall.sentence) = scall.verb \o <<".">>

(***************************************************************************)
(* C2 amended: for all arguments the sentence ends with the verb followed   *)
(* by a period; when the verb contains no space, the verb (with the         *)
(* period) is the last space-separated phrase of the sentence.              *)
(***************************************************************************)
C2_VerbLast ==
    scall.done =>
        /\ EndsWith(scall.sentence, scall.verb \o <<".">>)
        /\ (" " \notin Range(scall.verb) =>
                LastToken(scall.sentence) = scall.verb \o <<".">>)

C2_Witness ==
    /\ scall.done
    /\ scall.verb = <<"a", "a">>
    /\ scall.obj # <<>>
    /\ scall.add_adverb
    /\ scall.adverb # <<>>
    /\ Len(scall.parts) = 4
    /\ LastToken(scall.sentence) = <<"a", "a", ".">>

(***************************************************************************)
(* C3: once init_default_rules has installed the three default rules, and   *)
(* after any further add_rule calls, apply_morphology(w, "plural") is       *)
(* w + "tachi", (w, "past") is w + "ta" and (w, "negative") is "fu" + w.    *)
(***************************************************************************)
C3_DefaultRules ==
    (ui /\ mcall.done) =>
        /\ mcall.rule_name = "plural" =>
               mcall.result = mcall.base_word \o <<"t","a","c","h","i">>
        /\ mcall.rule_name = "past" =>
               mcall.result = mcall.base_word \o <<"t","a">>
        /\ mcall.rule_name = "negative" =>
               mcall.result = <<"f","u">> \o mcall.base_word

C3_Witness ==
    /\ ui
    /\ mcall.done
    /\ mcall.rule_name = "negative"
    /\ mcall.base_word # <<>>
    /\ \E i \in 4..Len(rules) : rules[i].name = "negative" /\ rules[i].rule_type = "suffix"

(***************************************************************************)
(* C4: when no rule of the list is named rule_name, apply_morphology        *)
(* returns base_word unchanged, and the call leaves the rule list as it     *)
(* was.                                                                    *)
(***************************************************************************)
C4_NoMatchIdentity ==
    [][(~mcall.done /\ mcall'.done /\ Named(rules, mcall'.rule_name) = {}) =>
            (mcall'.result = mcall'.base_word /\ rules' = rules)]_vars

C4_Witness ==
    /\ mcall.done
    /\ Len(rules) >= 2
    /\ Named(rules, mcall.rule_name) = {}
    /\ mcall.base_word # <<>>
    /\ mcall.result = mcall.base_word

(***************************************************************************)
(* C5 as claimed: for every syllable_count and every word_type              *)
(* generate_word returns a non-empty string.                                *)
(***************************************************************************)
C5_Original == wcall.done => wcall.word # <<>>

(***************************************************************************)
(* C5 amended: generate_word returns a non-empty string whenever            *)
(* syllable_count is omitted or at least 1, or word_type is "noun" or       *)
(* "verb" (with syllable_count <= 0 and another word_type it returns "").   *)
(***************************************************************************)
C5_NonEmptyWord ==
    (/\ wcall.done
     /\ \/ wcall.syllable_count = None
        \/ wcall.syllable_count[1] >= 1
        \/ wcall.word_type \in {"noun", "verb"}) => wcall.word # <<>>

C5_Witness ==
    /\ wcall.done
    /\ wcall.syllable_count = <<1>>
    /\ wcall.word_type = "adjective"
    /\ Len(wcall.word) >= 2

(***************************************************************************)
(* C6 as claimed: the result of apply_morphology is decided by the first    *)
(* rule named rule_name alone (marker + base_word for a prefix,             *)
(* base_word + marker for a suffix); rules of that name added later never   *)
(* change it, so it is what the list cut after that rule gives.             *)
(***************************************************************************)
C6_Original ==
    (mcall.done /\ Named(rules, mcall.rule_name) # {}) =>
        mcall.result = Affixed(rules[Min(Named(rules, mcall.rule_name))], mcall.base_word)

(***************************************************************************)
(* C6 amended: the result of apply_morphology is decided by the first rule  *)
(* in insertion order that is named rule_name and whose kind is 'prefix'    *)
(* or 'suffix' (rules of that name with any other kind are skipped):        *)
(* marker + base_word for a prefix, base_word + marker for a suffix; rules  *)
(* added after that rule never change it, and with no such rule the result  *)
(* is base_word.                                                           *)
(***************************************************************************)
C6_FirstEffectiveRule ==
    mcall.done =>
        IF Effective(rules, mcall.rule_name) = {}
        THEN mcall.result = mcall.base_word
        ELSE mcall.result =
                 Affixed(rules[Min(Effective(rules, mcall.rule_name))], mcall.base_word)

C6_Witness ==
    /\ mcall.done
    /\ ~ui
    /\ Len(rules) = 2
    /\ rules[1].name = mcall.rule_name
    /\ rules[2].name = mcall.rule_name
    /\ rules[1].rule_type = "suffix"
    /\ rules[2].rule_type = "prefix"
    /\ rules[1].marker # rules[2].marker
    /\ mcall.result = mcall.base_word \o rules[1].marker

(***************************************************************************)
(* C7: the store is append-only: in every step, every word class keeps the  *)
(* sequence it held as a prefix of the sequence it holds afterwards.        *)
(***************************************************************************)
C7_AppendOnly ==
    [][\A c \in DOMAIN vocabulary :
           c \in DOMAIN vocabulary' /\ IsPrefix(vocabulary[c], vocabulary'[c])]_vars

C7_Witness ==
    /\ call.op = "generate_vocabulary"
    /\ Len(Get(call.pre, "noun")) = 3
    /\ Len(Get(call.pre, "adjective")) = 1
    /\ Len(vocabulary["noun"]) = 6
    /\ Len(vocabulary["adjective"]) = 2

(***************************************************************************)
(* C8: generate_sentence returns subject phrase, object phrase, adverb      *)
(* phrase and verb in that order, joined by single spaces and followed by   *)
(* a period; the subject phrase (subject + wa|ga) is always there, the      *)
(* object phrase (obj + wo) iff obj is non-empty, the adverb phrase         *)
(* (adverb + e|o) iff add_adverb and adverb is non-empty; the phrases       *)
(* before the verb number 1 + [obj] + [adverb].                             *)
(***************************************************************************)
C8_PhraseOrder ==
    scall.done =>
        \E p1 \in {<<"w","a">>, <<"g","a">>}, p2 \in {<<"e">>, <<"o">>} :
            LET hasObj == scall.obj # <<>>
                hasAdv == scall.add_adverb /\ scall.adverb # <<>>
                objPhrase == IF hasObj THEN <<scall.obj \o <<"w","o">>>> ELSE <<>>
                advPhrase == IF hasAdv THEN <<scall.adverb \o p2>> ELSE <<>>
            IN  /\ scall.parts = <<scall.subject \o p1>> \o objPhrase \o advPhrase
                                     \o <<scall.verb>>
                /\ scall.sentence =
                       scall.subject \o p1
                       \o (IF hasObj THEN <<" ">> \o objPhrase[1] ELSE <<>>)
                       \o (IF hasAdv THEN <<" ">> \o advPhrase[1] ELSE <<>>)
                       \o <<" ">> \o scall.verb \o <<".">>
                /\ Len(scall.parts) - 1 =
                       1 + (IF hasObj THEN 1 ELSE 0) + (IF hasAdv THEN 1 ELSE 0)

C8_Witness ==
    /\ scall.done
    /\ scall.obj # <<>>
    /\ scall.add_adverb
    /\ scall.adverb = <<>>
    /\ Len(scall.parts) = 3

(***************************************************************************)
(* C9: show_morphology never raises and changes the word sequence of no     *)
(* class, and generate_sentences called with 'noun' and 'verb' both         *)
(* non-empty changes the word sequence of no class: the adverbs it          *)
(* generates are not recorded.                                             *)
(***************************************************************************)
C9_ReadOnly ==
    /\ call.op = "show_morphology" => (~raised /\ SameWords(call.pre, vocabulary))
    /\ (/\ call.op \in SentenceOps
        /\ Get(call.pre, "noun") # <<>>
        /\ Get(call.pre, "verb") # <<>>) => SameWords(call.pre, vocabulary)

C9_Witness ==
    /\ call.op = "generate_sentences"
    /\ Get(call.pre, "noun") # <<>>
    /\ Get(call.pre, "verb") # <<>>
    /\ \E i \in 1..Len(sentences) : sentences[i].adverb # <<>>

(***************************************************************************)
(* C10: in every reachable state either 'noun', 'verb' and 'adjective' are  *)
(* all empty, or 'noun' holds at least 3 words and 'verb' at least 1; and   *)
(* no handler has sampled an empty sequence (none ended in IndexError).     *)
(***************************************************************************)
C10_StoreShape ==
    /\ \/ /\ Get(vocabulary, "noun") = <<>>
          /\ Get(vocabulary, "verb") = <<>>
          /\ Get(vocabulary, "adjective") = <<>>
       \/ /\ Len(Get(vocabulary, "noun")) >= 3
          /\ Len(Get(vocabulary, "verb")) >= 1
    /\ ~raised

C10_Witness ==
    /\ call.op = "show_morphology"
    /\ Len(Get(vocabulary, "verb")) = 1
    /\ Len(Get(vocabulary, "noun")) = 3
    /\ Len(morph) = 3

====
